---- MODULE Spec2Model ----
(***************************************************************************)
(* separate-point-sets.js: QuickHull convex hull (getConvexHull) and the   *)
(* displacement of one point set away from another (displacePoints).       *)
(*                                                                         *)
(* A point object is a record [id, x, y]; id stands for the identity of    *)
(* the JavaScript object (two objects may carry the same coordinates), and *)
(* id 0 is the null reference.  An edge is a pair <<p, q>> of points.      *)
(* A JavaScript variable that may be undefined is <<>> (undefined) or      *)
(* <<v>> (the number v).                                                   *)
(*                                                                         *)
(* A JavaScript number is a fixed-point number: the integer n stands for   *)
(* n / Res.  Sums, differences and comparisons are those of the integers;  *)
(* a product, a quotient or a square root is rounded to the nearest        *)
(* multiple of 1 / Res, as IEEE arithmetic rounds to the nearest double.   *)
(* The input coordinates are whole numbers, on which products are exact.   *)
(***************************************************************************)
EXTENDS Integers, Sequences, FiniteSets, TLC

VARIABLES
    pc,          \* "ready" before the call; "running", "built", "returned" or "threw" after
    points,      \* getConvexHull: the collection passed in
    hull,        \* getConvexHull: the array returned
    minPt,       \* getConvexHull: local minPt when the function returns
    maxPt,       \* getConvexHull: local maxPt when the function returns
    rootLine,    \* buildConvexHull: the baseline of the outermost call
    stack,       \* buildConvexHull: the calls not yet made or not yet finished
    out,         \* buildConvexHull: the edges returned so far, in order
    ptsFixed,        \* displacePoints: the fixed collection
    ptsToDisplace,   \* displacePoints: the collection to displace
    padding,         \* displacePoints: argument padding
    pt1,             \* displacePoints: argument pt1
    pt2,             \* displacePoints: argument pt2
    before           \* displacePoints: both collections as they were at the call

hullVars == <<points, hull, minPt, maxPt>>
buildVars == <<rootLine, stack, out>>
sepVars == <<ptsFixed, ptsToDisplace, padding, pt1, pt2, before>>

vars == <<pc, hullVars, buildVars, sepVars>>

----------------------------------------------------------------------------
(* Bounds of the model *)

\* longest collection handed to getConvexHull
MaxPoints == 4

\* longest candidate list handed to buildConvexHull
MaxCand == 3

\* deepest nesting of buildConvexHull the model follows
MaxDepth == MaxCand + 2

\* farthest shift, in whole units, of the collection to displace
MaxShift == 2

\* the fixed-point unit: the integer Res is the number 1
Res == 2 ^ 8

\* coordinates of the input points (0 and negative values included)
Coords == { c * Res : c \in -1 .. 1 }

----------------------------------------------------------------------------
(* JavaScript values *)

Undefined == <<>>

NullPt == [id |-> 0, x |-> 0, y |-> 0]

\* !v for a variable holding undefined or a number
Falsy(v) == v = Undefined \/ v = <<0>>

\* a > v and a < v for a number a and a variable v: false when v is undefined
GreaterThan(a, v) == v # Undefined /\ a > v[1]
LessThan(a, v) == v # Undefined /\ a < v[1]

----------------------------------------------------------------------------
(* JavaScript arithmetic *)

abs(n) == IF n < 0 THEN -n ELSE n

\* n / d rounded to the nearest integer, halves away from zero
RoundDiv(n, d) ==
    LET q == (2 * abs(n) + abs(d)) \div (2 * abs(d))
    IN  IF (n < 0) # (d < 0) THEN -q ELSE q

\* a * b
times(a, b) == RoundDiv(a * b, Res)

\* a / b; a division by zero gives NaN or an infinity
over(a, b) ==
    IF b # 0 THEN RoundDiv(a * Res, b)
    ELSE IF a = 0 THEN "NaN" ELSE IF a > 0 THEN "Infinity" ELSE "-Infinity"

\* the integer nearest to the square root of n, found by bisection
RECURSIVE nearestRoot(_, _, _)
nearestRoot(n, lo, hi) ==
    IF hi - lo <= 1
    THEN IF n - lo * lo > lo THEN lo + 1 ELSE lo
    ELSE LET mid == (lo + hi) \div 2
         IN  IF mid * mid <= n THEN nearestRoot(n, mid, hi)
                               ELSE nearestRoot(n, lo, mid)

\* Math.sqrt(a), a >= 0; 46341 is above the root of every 32-bit integer
MathSqrt(a) ==
    nearestRoot(a * Res, 0, IF a * Res < 46341 THEN a * Res + 1 ELSE 46341)

\* null where a number is expected, and its value in arithmetic
Null == <<>>
ToNumber(v) == IF v = Null THEN 0 ELSE v[1]

\* an object made by a literal {x: .., y: ..} inside a function
Object(x, y) == [id |-> -1, x |-> x, y |-> y]

\* the arrays [p1, ..., pn] of n distinct objects with coordinates in Coords
PointArrays(n) ==
    { [i \in 1..n |-> [id |-> i, x |-> c[i][1], y |-> c[i][2]]] :
        c \in [1..n -> Coords \X Coords] }

----------------------------------------------------------------------------
(* getConvexHull *)

\* signed distance of pt from the line through baseLine (lines 45-46, 50)
distance(baseLine, pt) ==
    LET Vy == baseLine[2].x - baseLine[1].x
        Vx == baseLine[1].y - baseLine[2].y
    IN  times(Vx, pt.x - baseLine[1].x) + times(Vy, pt.y - baseLine[1].y)

\* findLoop with "distance >= 0" and "distance >= maxD" for the two tests
RECURSIVE findLoop_notStrict(_, _, _, _)
findLoop_notStrict(baseLine, pts, idx, acc) ==
    IF idx > Len(pts) THEN acc
    ELSE LET pt == pts[idx]
             d == distance(baseLine, pt)
             acc1 == IF d >= 0
                     THEN [acc EXCEPT !.newPoints = Append(@, pt)]
                     ELSE acc
             acc2 == IF d >= 0 /\ d >= acc.maxD
                     THEN [acc1 EXCEPT !.maxD = d, !.maxPoint = pt]
                     ELSE acc1
         IN  findLoop_notStrict(baseLine, pts, idx + 1, acc2)

\* findLoop without the test "distance > maxD": the last outside point wins
RECURSIVE findLoop_lastOutside(_, _, _, _)
findLoop_lastOutside(baseLine, pts, idx, acc) ==
    IF idx > Len(pts) THEN acc
    ELSE LET pt == pts[idx]
             d == distance(baseLine, pt)
             acc1 == IF d > 0
                     THEN [acc EXCEPT !.newPoints = Append(@, pt)]
                     ELSE acc
             acc2 == IF d > 0
                     THEN [acc1 EXCEPT !.maxD = d, !.maxPoint = pt]
                     ELSE acc1
         IN  findLoop_lastOutside(baseLine, pts, idx + 1, acc2)

\* one pass of the loop of findMostDistantPointFromBaseLine (lines 48-59)
RECURSIVE findLoop(_, _, _, _)
findLoop(baseLine, pts, idx, acc) ==
    IF idx > Len(pts) THEN acc
    ELSE LET pt == pts[idx]
             d == distance(baseLine, pt)
             acc1 == IF d > 0
                     THEN [acc EXCEPT !.newPoints = Append(@, pt)]
                     ELSE acc
             acc2 == IF d > 0 /\ d > acc.maxD
                     THEN [acc1 EXCEPT !.maxD = d, !.maxPoint = pt]
                     ELSE acc1
         IN  findLoop(baseLine, pts, idx + 1, acc2)

findMostDistantPointFromBaseLine(baseLine, pts) ==
    findLoop(baseLine, pts, 1,
             [maxD |-> 0, maxPoint |-> NullPt, newPoints |-> <<>>])

RECURSIVE buildConvexHull(_, _)
buildConvexHull(baseLine, pts) ==
    LET t == findMostDistantPointFromBaseLine(baseLine, pts)
    IN  IF t.maxPoint # NullPt
        THEN buildConvexHull(<<baseLine[1], t.maxPoint>>, t.newPoints)
             \o buildConvexHull(<<t.maxPoint, baseLine[2]>>, t.newPoints)
        ELSE <<baseLine>>

\* one pass of the loop that finds the first baseline (lines 93-104)
RECURSIVE scanLoop(_, _, _)
scanLoop(pts, idx, s) ==
    IF idx > Len(pts) THEN s
    ELSE LET pt == pts[idx]
             s1 == [s EXCEPT !.ptsArray = Append(@, pt)]
             s2 == IF GreaterThan(pt.x, s1.maxX) \/ Falsy(s1.maxX)
                   THEN [s1 EXCEPT !.maxPt = pt, !.maxX = <<pt.x>>]
                   ELSE s1
             s3 == IF LessThan(pt.x, s2.minX) \/ Falsy(s2.minX)
                   THEN [s2 EXCEPT !.minPt = pt, !.minX = <<pt.x>>]
                   ELSE s2
         IN  scanLoop(pts, idx + 1, s3)

findFirstBaseline(pts) ==
    scanLoop(pts, 1, [maxX |-> Undefined, minX |-> Undefined,
                      maxPt |-> NullPt, minPt |-> NullPt, ptsArray |-> <<>>])

\* Array.prototype.concat: a new array; the receiver is left as it was
concat(a, b, c) == a \o b \o c

\* getConvexHull returning the concatenation itself, without the length test
getConvexHull_noLengthTest(pts) ==
    LET s == findFirstBaseline(pts)
    IN  concat(<<>>,
               buildConvexHull(<<s.minPt, s.maxPt>>, s.ptsArray),
               buildConvexHull(<<s.maxPt, s.minPt>>, s.ptsArray))

\* lines 106-110: the value of ch.concat(...) is dropped, ch is returned
getConvexHull(pts) ==
    LET s == findFirstBaseline(pts)
        ch == <<>>
    IN  IF Len(s.ptsArray) >= 3
        THEN LET dropped ==
                   concat(ch,
                          buildConvexHull(<<s.minPt, s.maxPt>>, s.ptsArray),
                          buildConvexHull(<<s.maxPt, s.minPt>>, s.ptsArray))
             IN  ch
        ELSE ch

----------------------------------------------------------------------------
(* displacePoints *)

checkLineIntersection(line1Start, line1End, line2Start, line2End) ==
    LET denominator ==
            times(line2End.y - line2Start.y, line1End.x - line1Start.x)
            - times(line2End.x - line2Start.x, line1End.y - line1Start.y)
        a0 == line1Start.y - line2Start.y
        b0 == line1Start.x - line2Start.x
        numerator1 == times(line2End.x - line2Start.x, a0)
                      - times(line2End.y - line2Start.y, b0)
        numerator2 == times(line1End.x - line1Start.x, a0)
                      - times(line1End.y - line1Start.y, b0)
        a == over(times(Res, numerator1), denominator)
        b == over(times(Res, numerator2), denominator)
    IN  IF denominator = 0
        THEN [x |-> Null, y |-> Null, onLine1 |-> FALSE, onLine2 |-> FALSE]
        ELSE [x |-> << line1Start.x + times(a, line1End.x - line1Start.x) >>,
              y |-> << line1Start.y + times(a, line1End.y - line1Start.y) >>,
              onLine1 |-> a > 0 /\ a < Res,
              onLine2 |-> b > 0 /\ b < Res]

sqr(x) == times(x, x)

dist2(p, q) == sqr(p.x - q.x) + sqr(p.y - q.y)

distToSegmentSquared(pt, v1, v2) ==
    LET l2 == dist2(v1, v2)
        t == over(times(pt.x - v1.x, v2.x - v1.x)
                  + times(pt.y - v1.y, v2.y - v1.y), l2)
    IN  IF l2 = 0 THEN dist2(pt, v1)
        ELSE IF t < 0 THEN dist2(pt, v1)
        ELSE IF t > Res THEN dist2(pt, v2)
        ELSE dist2(pt, Object(v1.x + times(t, v2.x - v1.x),
                              v1.y + times(t, v2.y - v1.y)))

distToSegment(pt, v1, v2) == MathSqrt(distToSegmentSquared(pt, v1, v2))

\* the loops of findMostDistantPointFromLine (lines 198-208): k counts the
\* passes of the inner loop, two for each edge
RECURSIVE lineLoop(_, _, _, _, _)
lineLoop(linePt1, linePt2, convexHull, k, acc) ==
    IF k >= 2 * Len(convexHull) THEN acc
    ELSE LET Vy == linePt2.x - linePt1.x
             Vx == linePt1.y - linePt2.y
             pt == convexHull[(k \div 2) + 1][(k % 2) + 1]
             d == times(Vx, pt.x - linePt1.x) + times(Vy, pt.y - linePt1.y)
         IN  lineLoop(linePt1, linePt2, convexHull, k + 1,
                      IF d > 0 /\ d > acc.maxD
                      THEN [maxD |-> d, maxPt |-> pt] ELSE acc)

findMostDistantPointFromLine(linePt1, linePt2, convexHull) ==
    lineLoop(linePt1, linePt2, convexHull, 0,
             [maxD |-> 0, maxPt |-> NullPt]).maxPt

\* the loop of minDistanceVector (lines 223-229)
RECURSIVE minLoop(_, _, _, _)
minLoop(convexHull, pt, i, acc) ==
    IF i > Len(convexHull) THEN acc
    ELSE LET tmpDist == distToSegment(pt, convexHull[i][1], convexHull[i][2])
         IN  minLoop(convexHull, pt, i + 1,
                     IF acc.minDist = Null \/ tmpDist < ToNumber(acc.minDist)
                     THEN [minDist |-> <<tmpDist>>, minDistIndex |-> i]
                     ELSE acc)

\* returns [kind |-> "object", vector, edge] or [kind |-> "null"]
minDistanceVector(convexHull, pt) ==
    LET m == minLoop(convexHull, pt, 1, [minDist |-> Null, minDistIndex |-> 0])
    IN  IF m.minDist # Null
        THEN LET e == convexHull[m.minDistIndex]
                 dx == e[1].x - e[2].x
                 dy == e[1].y - e[2].y
                 pp2 == Object(pt.x + dy, pt.y - dx)
                 intersectionData == checkLineIntersection(pt, pp2, e[1], e[2])
             IN  [kind |-> "object",
                  vector |-> [x |-> ToNumber(intersectionData.x) - pt.x,
                              y |-> ToNumber(intersectionData.y) - pt.y],
                  edge |-> <<e[1], e[2]>>]
        ELSE [kind |-> "null"]

sameSign(a, b) == (a < 0 /\ b < 0) \/ (a >= 0 /\ b >= 0)

sameDirection(pt11, pt12, pt21, pt22) ==
    /\ sameSign(pt12.x - pt11.x, ToNumber(pt22.x) - pt21.x)
    /\ sameSign(pt12.y - pt11.y, ToNumber(pt22.y) - pt21.y)

\* the loop of minDistanceVectorInDirection (lines 269-288); the result is
\* [kind |-> "object", vector, edge], [kind |-> "null"], or
\* [kind |-> "TypeError"] when mostDistantPoint is null on lines 282-283
RECURSIVE directionLoop(_, _, _, _)
directionLoop(convexHull, pt, v, i) ==
    IF i > Len(convexHull) THEN [kind |-> "null"]
    ELSE LET intersectionData ==
                 checkLineIntersection(pt, v, convexHull[i][1], convexHull[i][2])
         IN  IF /\ intersectionData.onLine2
                /\ sameDirection(pt, v, pt, intersectionData)
             THEN LET mostDistantPoint ==
                          findMostDistantPointFromLine(
                              pt,
                              Object(pt.x + (v.y - pt.y), pt.y - (v.x - pt.x)),
                              convexHull)
                  IN  IF mostDistantPoint = NullPt
                      THEN [kind |-> "TypeError"]
                      ELSE [kind |-> "object",
                            vector |-> [x |-> -pt.x + mostDistantPoint.x,
                                        y |-> -pt.y + mostDistantPoint.y],
                            edge |-> <<convexHull[i][1], convexHull[i][2]>>]
             ELSE directionLoop(convexHull, pt, v, i + 1)

minDistanceVectorInDirection(convexHull, pt, v) ==
    directionLoop(convexHull, pt, v, 1)

\* the loop that sums the first endpoints of the edges (lines 308-311)
RECURSIVE sumLoop(_, _, _)
sumLoop(chFixed, i, acc) ==
    IF i > Len(chFixed) THEN acc
    ELSE sumLoop(chFixed, i + 1, [x |-> acc.x + chFixed[i][1].x,
                                  y |-> acc.y + chFixed[i][1].y])

\* lines 303-314: the centre of the fixed hull, for a falsy pt1
centre(chFixed) ==
    LET sum == sumLoop(chFixed, 1, [x |-> 0, y |-> 0])
    IN  Object(over(sum.x, Len(chFixed) * Res), over(sum.y, Len(chFixed) * Res))

\* lines 326-340: the direction of the separating axis
separatingAxis(displacementDirection, edge) ==
    IF displacementDirection.x # 0 \/ displacementDirection.y # 0
    THEN [x |-> times(-Res, displacementDirection.y),
          y |-> -times(-Res, displacementDirection.x)]
    ELSE [x |-> edge[1].x - edge[2].x,
          y |-> edge[1].y - edge[2].y]

\* lines 357-364: the padding, at a right angle to the separating axis
paddingVector(separatingAxisVector, pad) ==
    LET padding0 == IF Falsy(pad) THEN 0 ELSE pad[1]
        len == MathSqrt(times(separatingAxisVector.x, separatingAxisVector.x)
                        + times(separatingAxisVector.y, separatingAxisVector.y))
    IN  [x |-> times(times(Res, separatingAxisVector.y), over(padding0, len)),
         y |-> times(times(-Res, separatingAxisVector.x), over(padding0, len))]

\* lines 352-368: the total displacement, once farthestPoint is known
totalDisplacement(farthestPoint, separatingPoint, separatingAxisVector, pad) ==
    IF farthestPoint = NullPt
    THEN [kind |-> "TypeError"]
    ELSE LET vDisplace == [x |-> separatingPoint.x - farthestPoint.x,
                           y |-> separatingPoint.y - farthestPoint.y]
             vPadding == paddingVector(separatingAxisVector, pad)
         IN  [kind |-> "return",
              dx |-> vDisplace.x + vPadding.x,
              dy |-> vDisplace.y + vPadding.y]

\* lines 343-351: the point of chDisplace farthest beyond the separating axis
displaceFrom(separatingPoint, separatingAxisVector, chDisplace, pad) ==
    totalDisplacement(
        findMostDistantPointFromLine(
            separatingPoint,
            Object(separatingPoint.x + separatingAxisVector.x,
                   separatingPoint.y + separatingAxisVector.y),
            chDisplace),
        separatingPoint, separatingAxisVector, pad)

\* lines 324-343: reading the vector and the edge of displacementDataFromFixed
displaceAlong(displacementDataFromFixed, start, chDisplace, pad) ==
    IF displacementDataFromFixed.kind # "object"
    THEN [kind |-> "TypeError"]
    ELSE displaceFrom(Object(start.x + displacementDataFromFixed.vector.x,
                             start.y + displacementDataFromFixed.vector.y),
                      separatingAxis(displacementDataFromFixed.vector,
                                     displacementDataFromFixed.edge),
                      chDisplace, pad)

\* lines 316-323: the smallest vector out of the fixed hull, or the one in
\* the direction of p2
displaceFromStart(start, chFixed, chDisplace, pad, p2) ==
    displaceAlong(IF p2 = NullPt
                  THEN minDistanceVector(chFixed, start)
                  ELSE minDistanceVectorInDirection(chFixed, start, p2),
                  start, chDisplace, pad)

\* lines 302-368, past the test of the hull lengths: the displacement, as
\* [kind |-> "return", dx, dy], or [kind |-> "TypeError"] where a property
\* of null is read (lines 324, 352-353, or inside
\* minDistanceVectorInDirection)
displacement(chFixed, chDisplace, pad, p1, p2) ==
    displaceFromStart(IF p1 = NullPt THEN centre(chFixed) ELSE p1,
                      chFixed, chDisplace, pad, p2)

\* displacePoints with "> 3" for "< 3" in the test of the hull lengths
displacePoints_wrongTest(fixed, toDisplace, pad, p1, p2) ==
    LET chFixed == getConvexHull(fixed)
        chDisplace == getConvexHull(toDisplace)
    IN  IF Len(chFixed) > 3 \/ Len(chDisplace) > 3
        THEN [kind |-> "return", dx |-> 0, dy |-> 0]
        ELSE displacement(chFixed, chDisplace, pad, p1, p2)

\* displacePoints up to the loop that moves the points: the hulls, the test
\* of their lengths (lines 298-301), then the displacement
displacePoints(fixed, toDisplace, pad, p1, p2) ==
    LET chFixed == getConvexHull(fixed)
        chDisplace == getConvexHull(toDisplace)
    IN  IF Len(chFixed) < 3 \/ Len(chDisplace) < 3
        THEN [kind |-> "return", dx |-> 0, dy |-> 0]
        ELSE displacement(chFixed, chDisplace, pad, p1, p2)

\* lines 371-374 as seen through a reference p: the object p moves once for
\* each place it has in toDisplace
displaced(p, toDisplace, dx, dy) ==
    LET n == Cardinality({ i \in 1..Len(toDisplace) : toDisplace[i].id = p.id })
    IN  [p EXCEPT !.x = @ + n * dx, !.y = @ + n * dy]

----------------------------------------------------------------------------
(* A call of getConvexHull on a collection of at most MaxPoints points *)

InitHull ==
    /\ pc = "ready"
    /\ points \in UNION { PointArrays(n) : n \in 0..MaxPoints }
    /\ hull = <<>>
    /\ minPt = NullPt
    /\ maxPt = NullPt
    /\ rootLine = <<NullPt, NullPt>>
    /\ stack = <<>>
    /\ out = <<>>
    /\ ptsFixed = <<>>
    /\ ptsToDisplace = <<>>
    /\ padding = Undefined
    /\ pt1 = NullPt
    /\ pt2 = NullPt
    /\ before = [fixed |-> <<>>, displace |-> <<>>]

CallGetConvexHull ==
    /\ pc = "ready"
    /\ pc' = "returned"
    /\ hull' = getConvexHull(points)
    /\ minPt' = findFirstBaseline(points).minPt
    /\ maxPt' = findFirstBaseline(points).maxPt
    /\ UNCHANGED <<points, buildVars, sepVars>>

NextHull == CallGetConvexHull

SpecHull == InitHull /\ [][NextHull]_vars

----------------------------------------------------------------------------
(* Properties of getConvexHull *)

Elements(seq) == { seq[i] : i \in 1..Len(seq) }

Collinear(a, b, c) ==
    times(b.x - a.x, c.y - a.y) - times(b.y - a.y, c.x - a.x) = 0

\* the collection holds three points that are not on one line
NonDegenerate(pts) ==
    \E a, b, c \in Elements(pts) : ~Collinear(a, b, c)

\* p is in the polygon the edges bound: there are edges, and p is strictly
\* outside none of them
InPolygon(p, edges) ==
    /\ edges # <<>>
    /\ \A k \in 1..Len(edges) : distance(edges[k], p) <= 0

\* C2: every input point lies on the boundary or in the interior of the
\* polygon formed by the returned hull edges (stated for the collections
\* that have such a polygon: three points not on one line).
C2_HullContainsPoints ==
    (pc = "returned" /\ NonDegenerate(points)) =>
        \A p \in Elements(points) : InPolygon(p, hull)

\* C3: for 3 non-collinear points getConvexHull returns a triangle: 3 edges,
\* each input point an endpoint of exactly two of them.
C3_TriangleOfThreePoints ==
    (pc = "returned" /\ Len(points) = 3 /\ NonDegenerate(points)) =>
        /\ Len(hull) = 3
        /\ \A p \in Elements(points) :
              Cardinality({ k \in 1..Len(hull) :
                              hull[k][1] = p \/ hull[k][2] = p }) = 2

\* C7: for a collection of 0, 1 or 2 points getConvexHull returns an empty
\* edge sequence.
C7_NoHullBelowThreePoints ==
    (pc = "returned" /\ Len(points) <= 2) => hull = <<>>

\* getConvexHull has returned for a collection of two points
C7_Witness ==
    pc = "returned" /\ Len(points) = 2 /\ points[1].x # points[2].x

\* the first point of pts whose x is v
FirstWithX(pts, v) ==
    pts[CHOOSE i \in 1..Len(pts) :
            pts[i].x = v /\ \A j \in 1..(i - 1) : pts[j].x # v]

\* C8: after the scan of a non-empty collection minPt is the first point
\* with the minimum x and maxPt the first point with the maximum x.
C8_BaselineIsExtreme ==
    (pc = "returned" /\ points # <<>>) =>
        LET xs == { p.x : p \in Elements(points) }
            lo == CHOOSE v \in xs : \A w \in xs : v <= w
            hi == CHOOSE v \in xs : \A w \in xs : v >= w
        IN  minPt = FirstWithX(points, lo) /\ maxPt = FirstWithX(points, hi)

----------------------------------------------------------------------------
(* The recursion of buildConvexHull, one call at a time.  stack holds the  *)
(* calls still to be made, the next one first; a call either returns its   *)
(* baseline (Emit) or makes its two recursive calls (Descend), whose       *)
(* results are concatenated in that order.  depth counts the calls between *)
(* a call and the outermost one.                                           *)

\* the baselines tried: the first endpoint up to the symmetries of the grid
BaseLines ==
    { << [id |-> -1, x |-> a[1], y |-> a[2]], [id |-> -2, x |-> b[1], y |-> b[2]] >> :
        a \in {<<-Res, -Res>>, <<-Res, 0>>, <<0, 0>>}, b \in Coords \X Coords }

InitBuild ==
    /\ pc = "ready"
    /\ points \in UNION { PointArrays(n) : n \in 0..MaxCand }
    /\ rootLine \in BaseLines
    /\ hull = <<>>
    /\ minPt = NullPt
    /\ maxPt = NullPt
    /\ stack = <<>>
    /\ out = <<>>
    /\ ptsFixed = <<>>
    /\ ptsToDisplace = <<>>
    /\ padding = Undefined
    /\ pt1 = NullPt
    /\ pt2 = NullPt
    /\ before = [fixed |-> <<>>, displace |-> <<>>]

CallBuild ==
    /\ pc = "ready"
    /\ pc' = "running"
    /\ stack' = << [baseLine |-> rootLine, points |-> points, depth |-> 0] >>
    /\ UNCHANGED <<hullVars, rootLine, out, sepVars>>

Descend ==
    /\ pc = "running"
    /\ stack # <<>>
    /\ LET f == Head(stack)
           t == findMostDistantPointFromBaseLine(f.baseLine, f.points)
       IN  /\ t.maxPoint # NullPt
           /\ f.depth < MaxDepth
           /\ stack' = << [baseLine |-> <<f.baseLine[1], t.maxPoint>>,
                           points |-> t.newPoints, depth |-> f.depth + 1],
                          [baseLine |-> <<t.maxPoint, f.baseLine[2]>>,
                           points |-> t.newPoints, depth |-> f.depth + 1] >>
                        \o Tail(stack)
    /\ UNCHANGED <<pc, hullVars, rootLine, out, sepVars>>

Emit ==
    /\ pc = "running"
    /\ stack # <<>>
    /\ LET f == Head(stack)
           t == findMostDistantPointFromBaseLine(f.baseLine, f.points)
       IN  /\ t.maxPoint = NullPt
           /\ out' = Append(out, f.baseLine)
           /\ stack' = Tail(stack)
    /\ UNCHANGED <<pc, hullVars, rootLine, sepVars>>

ReturnBuild ==
    /\ pc = "running"
    /\ stack = <<>>
    /\ pc' = "built"
    /\ hull' = out
    /\ UNCHANGED <<points, minPt, maxPt, buildVars, sepVars>>

NextBuild == CallBuild \/ Descend \/ Emit \/ ReturnBuild

SpecBuild == InitBuild /\ [][NextBuild]_vars

\* the calls made one at a time return what the function returns
BuildAgrees ==
    pc = "built" => hull = buildConvexHull(rootLine, points)

----------------------------------------------------------------------------
(* Properties of buildConvexHull *)

\* the outside subset a call computes
Outside(f) == findMostDistantPointFromBaseLine(f.baseLine, f.points).newPoints

\* C9: buildConvexHull returns a non-empty chain of edges from baseLine[0]
\* to baseLine[1], each edge ending at the object the next one starts at;
\* every vertex in between is a candidate strictly outside the baseline; no
\* candidate strictly outside the baseline is strictly outside a returned
\* edge; with no candidate strictly outside, the result is [baseLine].
C9_BuildReturnsChain ==
    pc = "built" =>
        /\ Len(hull) >= 1
        /\ hull[1][1] = rootLine[1]
        /\ hull[Len(hull)][2] = rootLine[2]
        /\ \A k \in 1..(Len(hull) - 1) :
              /\ hull[k][2] = hull[k + 1][1]
              /\ hull[k][2] \in Elements(points)
              /\ distance(rootLine, hull[k][2]) > 0
        /\ \A p \in Elements(points) :
              distance(rootLine, p) > 0 =>
                  \A k \in 1..Len(hull) : distance(hull[k], p) <= 0
        /\ (\A p \in Elements(points) : distance(rootLine, p) <= 0)
              => hull = <<rootLine>>

\* the recursion went through several levels and returned several edges
C9_Witness ==
    /\ pc = "built"
    /\ Len(hull) >= 3
    /\ \E p \in Elements(points) :
          distance(rootLine, p) > 0 /\ \A k \in 1..Len(hull) : p # hull[k][2]

\* C10: the recursion of buildConvexHull ends: the vertex a call selects is
\* at distance 0 of both baselines it recurses on, the outside subset of a
\* recursive call is a strict subset of its caller's outside subset (the
\* candidates it was handed), and no call is nested deeper than the number
\* of candidates.
C10_RecursionBounded ==
    \A k \in 1..Len(stack) :
        LET f == stack[k]
        IN  /\ f.depth <= Len(points)
            /\ f.depth >= 1 =>
                  /\ distance(f.baseLine, f.baseLine[1]) = 0
                  /\ distance(f.baseLine, f.baseLine[2]) = 0
                  /\ Elements(Outside(f)) \subseteq Elements(f.points)
                  /\ Len(Outside(f)) < Len(f.points)
                  /\ \E p \in Elements(f.points) :
                        /\ p \in Elements(f.baseLine)
                        /\ p \notin Elements(Outside(f))

\* a call nested two deep, among candidates with duplicates, is pending
C10_Witness ==
    /\ stack # <<>>
    /\ Head(stack).depth >= 2
    /\ \E i, j \in 1..Len(points) :
          i # j /\ points[i].x = points[j].x /\ points[i].y = points[j].y

----------------------------------------------------------------------------
(* A call of displacePoints *)

Point(i, x, y) == [id |-> i, x |-> x * Res, y |-> y * Res]

\* the arrays made of some of the objects of an array, in its order
SubArrays(array) ==
    { SelectSeq(array, LAMBDA p : p.id \in S) :
        S \in SUBSET { array[i].id : i \in 1..Len(array) } }

\* the arrays made of the first objects of an array
Prefixes(array) == { SubSeq(array, 1, n) : n \in 0..Len(array) }

\* the fixed square of side 2 with its first corner at (o, o)
FixedSquare(o) ==
    << Point(1, o, o), Point(2, o, o + 2), Point(3, o + 2, o + 2), Point(4, o + 2, o) >>

\* a square of side 1, shifted by sx and sy
ShiftedSquare(sx, sy) ==
    << Point(5, sx, sy), Point(6, sx, sy + 1),
       Point(7, sx + 1, sy), Point(8, sx + 1, sy + 1) >>

InitDisplace ==
    /\ pc = "ready"
    /\ \E o \in 0..1 : ptsFixed \in SubArrays(FixedSquare(o))
    /\ \/ \E sx, sy \in 0..MaxShift :
             ptsToDisplace \in Prefixes(ShiftedSquare(sx, sy))
       \/ ptsToDisplace = ptsFixed
    /\ padding \in {Undefined, <<0>>, <<Res>>}
    /\ pt1 \in {NullPt, [id |-> -2, x |-> Res, y |-> Res]}
                 \cup { ptsFixed[i] : i \in 1..Len(ptsFixed) }
    /\ pt2 \in {NullPt, [id |-> -3, x |-> 3 * Res, y |-> Res],
                 [id |-> -3, x |-> Res, y |-> 3 * Res],
                 [id |-> -3, x |-> -Res, y |-> -Res]}
    /\ before = [fixed |-> ptsFixed, displace |-> ptsToDisplace]
    /\ points = <<>>
    /\ hull = <<>>
    /\ minPt = NullPt
    /\ maxPt = NullPt
    /\ rootLine = <<NullPt, NullPt>>
    /\ stack = <<>>
    /\ out = <<>>

DisplacePoints ==
    /\ pc = "ready"
    /\ \E r \in {displacePoints(ptsFixed, ptsToDisplace, padding, pt1, pt2)} :
           IF r.kind = "TypeError"
           THEN /\ pc' = "threw"
                /\ UNCHANGED <<ptsFixed, ptsToDisplace, pt1, pt2>>
           ELSE /\ pc' = "done"
                /\ ptsFixed' = [i \in 1..Len(ptsFixed) |->
                        displaced(ptsFixed[i], ptsToDisplace, r.dx, r.dy)]
                /\ ptsToDisplace' = [i \in 1..Len(ptsToDisplace) |->
                        displaced(ptsToDisplace[i], ptsToDisplace, r.dx, r.dy)]
                /\ pt1' = displaced(pt1, ptsToDisplace, r.dx, r.dy)
                /\ pt2' = displaced(pt2, ptsToDisplace, r.dx, r.dy)
    /\ UNCHANGED <<hullVars, buildVars, padding, before>>

NextDisplace == DisplacePoints

SpecDisplace == InitDisplace /\ [][NextDisplace]_vars

----------------------------------------------------------------------------
(* Properties of displacePoints *)

\* the line from p to q has every point of pts on it or on its inner side
Supports(p, q, pts) ==
    /\ p.x # q.x \/ p.y # q.y
    /\ \A r \in Elements(pts) : distance(<<p, q>>, r) <= 0

\* g is strictly inside the convex hull of pts
StrictlyInside(g, pts) ==
    /\ NonDegenerate(pts)
    /\ \A p, q \in Elements(pts) :
          Supports(p, q, pts) => distance(<<p, q>>, g) < 0

\* the convex hulls of a and b share interior area: a point of the lattice
\* of half units is strictly inside both
Lattice ==
    { Object(i * (Res \div 2), j * (Res \div 2)) :
        i, j \in (-2) .. (2 * MaxShift + 6) }

Overlap(a, b) ==
    \E g \in Lattice : StrictlyInside(g, a) /\ StrictlyInside(g, b)

\* the least distance from a point of a to a segment between points of b
Gap(a, b) ==
    LET ds == { distToSegment(p, q[1], q[2]) :
                  p \in Elements(a), q \in Elements(b) \X Elements(b) }
    IN  CHOOSE d \in ds : \A e \in ds : d <= e

\* C1: after displacePoints on two collections that each hold three points
\* not on one line (and share no object), the convex hulls share no
\* interior area and are at least padding apart, up to rounding.
C1_HullsSeparated ==
    (/\ pc = "done"
     /\ NonDegenerate(before.fixed)
     /\ NonDegenerate(before.displace)
     /\ \A p \in Elements(before.fixed), q \in Elements(before.displace) :
           p.id # q.id)
    => /\ ~Overlap(ptsFixed, ptsToDisplace)
       /\ Gap(ptsFixed, ptsToDisplace) + Res \div 64
             >= (IF Falsy(padding) THEN 0 ELSE padding[1])
       /\ Gap(ptsToDisplace, ptsFixed) + Res \div 64
             >= (IF Falsy(padding) THEN 0 ELSE padding[1])

\* C4: displacePoints never alters a coordinate of a point of ptsFixed.
C4_FixedUnchanged ==
    pc \in {"done", "threw"} => ptsFixed = before.fixed

\* displacePoints has returned on two squares, one collection for both
\* arguments included
C4_Witness ==
    /\ pc = "done"
    /\ Len(before.fixed) = 4
    /\ Len(before.displace) = 4
    /\ pt1 = NullPt
    /\ before.displace = before.fixed

\* C6: if the hull computed for ptsFixed or for ptsToDisplace has fewer
\* than 3 edges, displacePoints returns without throwing and leaves every
\* coordinate of both collections as it was.
C6_DegenerateIsNoOp ==
    (/\ pc \in {"done", "threw"}
     /\ \/ Len(getConvexHull(before.fixed)) < 3
        \/ Len(getConvexHull(before.displace)) < 3)
    => /\ pc = "done"
       /\ ptsFixed = before.fixed
       /\ ptsToDisplace = before.displace

\* displacePoints has returned on a fixed collection of two points
C6_Witness ==
    /\ pc = "done"
    /\ Len(before.fixed) = 2
    /\ Len(before.displace) = 4
    /\ Len(getConvexHull(before.fixed)) < 3

====
